---- MODULE Spec2Model ----
(***************************************************************************)
(* Model of the WhatTheFood dish repository (src/repositories/dishes.ts):  *)
(* the JSON-file backed collection of dishes, the image files owned by the *)
(* records, the dish-of-the-day cache, and the request handlers that call  *)
(* into them.  addDish and editDish suspend on image processing, so they   *)
(* are two steps (up to the await, and the continuation); every other      *)
(* operation is synchronous and is one step.                               *)
(***************************************************************************)
EXTENDS Integers, Sequences, FiniteSets, TLC

\* ------------------------------------------------------------------ bounds
\* Number of image file names randomBytes(8) hands out during a run.
MaxImages == 2
\* Number of skips (the nonce is an unbounded JS number).
MaxNonce == 1
\* Number of calendar days the clock runs through.
MaxDay == 2
\* Number of add/edit requests that can be suspended at the same time.
MaxProcs == 2
\* Number of dishes in the collections the selection is run on.
MaxLen == 3

\* ------------------------------------------------------------- value model
\* An optional (nullable / possibly undefined) value is a sequence of length
\* at most one: None is null/undefined, Some(x) is the value x.
None == <<>>
Some(x) == <<x>>

\* A string is a sequence of characters; " " is the whitespace character and
\* every other element stands for a run of non-whitespace characters.
Soup == <<"Soup">>
SpSoup == <<" ", "Soup">>
Blank == <<" ">>
Tea == <<"Tea">>

\* Image payloads of a request are "" (no new image), "png" (bytes of a PNG)
\* and "junk" (bytes of no detectable file type); a description is an opaque
\* array.

\* 'placeholder.jpg' of the empty dish; stored images are named 1..MaxImages.
PlaceholderImage == 0
EmptyName == <<"<empty>">>

VARIABLES
    db,            \* databases/dishes.json: the persisted DishEntity[]
    files,         \* names of the files in dish-images/
    nextImage,     \* the next fresh name randomBytes(8) produces
    today,         \* the clock's calendar day
    currentDay,    \* module variable currentDay (None until first selection)
    dishOfTheDay,  \* module variable dishOfTheDay (None until first selection)
    nonce,         \* module variable nonce
    procs,         \* suspended addDish / editDish invocations
    hung,          \* operations whose image promise never settles
    running,       \* whether the server process is running
    picked,        \* a recomputation of the selection remembered from earlier
    last           \* the step just taken: operation, request, outcome, return value

vars == <<db, files, nextImage, today, currentDay, dishOfTheDay, nonce, procs, hung,
          running, picked, last>>

\* ---------------------------------------------------------------- helpers
\* String.prototype.trim
RECURSIVE TrimStart(_)
TrimStart(s) ==
    IF s # <<>> /\ Head(s) = " " THEN TrimStart(Tail(s)) ELSE s

RECURSIVE TrimEnd(_)
TrimEnd(s) ==
    IF s # <<>> /\ s[Len(s)] = " " THEN TrimEnd(SubSeq(s, 1, Len(s) - 1)) ELSE s

Trim(s) == TrimEnd(TrimStart(s))

\* A find that compares the names trimmed.
FindDishTrimmed(dishes, name) ==
    IF \E i \in 1..Len(dishes) : Trim(dishes[i].name) = Trim(name)
    THEN CHOOSE i \in 1..Len(dishes) :
            /\ Trim(dishes[i].name) = Trim(name)
            /\ \A j \in 1..(i - 1) : Trim(dishes[j].name) # Trim(name)
    ELSE 0

\* dishes.find(d => d.name == name), as the index of the first match (0: none)
FindDish(dishes, name) ==
    IF \E i \in 1..Len(dishes) : dishes[i].name = name
    THEN CHOOSE i \in 1..Len(dishes) :
            /\ dishes[i].name = name
            /\ \A j \in 1..(i - 1) : dishes[j].name # name
    ELSE 0

\* ratings.find(r => r.userId == userId), as the index of the first match
FindRating(ratings, userId) ==
    IF \E i \in 1..Len(ratings) : ratings[i].userId = userId
    THEN CHOOSE i \in 1..Len(ratings) :
            /\ ratings[i].userId = userId
            /\ \A j \in 1..(i - 1) : ratings[j].userId # userId
    ELSE 0

\* dishes.splice(i): the count forgotten, everything from i on is removed.
SpliceFrom(dishes, i) == SubSeq(dishes, 1, i - 1)

\* dishes.splice(i, 1)
Splice(dishes, i) ==
    SubSeq(dishes, 1, i - 1) \o SubSeq(dishes, i + 1, Len(dishes))

\* arr.reduce((sum, item) => sum + item, 0)
RECURSIVE SumOf(_)
SumOf(arr) == IF arr = <<>> THEN 0 ELSE Head(arr) + SumOf(Tail(arr))

RECURSIVE Gcd(_, _)
Gcd(a, b) == IF b = 0 THEN a ELSE Gcd(b, a % b)

\* The number p / q (q > 0) as a fraction in lowest terms.
Fraction(p, q) ==
    LET g == Gcd(IF p < 0 THEN -p ELSE p, q)
    IN  [num |-> p \div g, den |-> q \div g]

\* An average that divides as integers.
avgTruncated(arr) ==
    IF Len(arr) = 0 THEN Fraction(0, 1)
    ELSE Fraction(SumOf(arr) \div Len(arr), 1)

\* avg: 0 for the empty array, else sum / length
avg(arr) ==
    IF Len(arr) = 0 THEN Fraction(0, 1)
    ELSE Fraction(SumOf(arr), Len(arr))

\* dish.ratings.map(rating => rating.rating)
RatingValuesOf(ratings) == [i \in 1..Len(ratings) |-> ratings[i].rating]

\* A transport whose yourRating is the first rating, whoever gave it.
ToTransportFirstRating(dish, userId) ==
    [name |-> dish.name,
     imageFilePath |-> dish.imageFilePath,
     description |-> dish.description,
     rating |-> avg(RatingValuesOf(dish.ratings)),
     yourRating |-> IF dish.ratings = <<>> THEN None ELSE Some(dish.ratings[1].rating)]

\* The DishTransport literal of getAllDishes and getDishOfTheDay.
ToTransport(dish, userId) ==
    [name |-> dish.name,
     imageFilePath |-> dish.imageFilePath,
     description |-> dish.description,
     rating |-> avg(RatingValuesOf(dish.ratings)),
     yourRating |-> IF FindRating(dish.ratings, userId) = 0 THEN None
                    ELSE Some(dish.ratings[FindRating(dish.ratings, userId)].rating)]

\* validateIncomingDish: the message of the error it throws, or "ok"
validateIncomingDish(dish) ==
    IF dish.name = None \/ Len(dish.name[1]) = 0 THEN "Missing dish name"
    ELSE IF dish.image = None THEN "Missing dish image"
    ELSE "ok"

\* getCurrentDay: the clock's day; DayString gives its text
getCurrentDay == today

\* ----------------------------------------------------- selection algorithm
\* createHash('sha256').update(currentDay + nonce).digest('hex'), as the 64
\* hexadecimal digits, for the day strings "2026-10-1" .. "2026-10-4".
Sha256Hex ==
    (* sha256("2026-10-10") = 462d5a35048be9052843a1f7aea6829ca21d1b78bd275de9b91d0cdb7fd98dec *)
    <<1, 0>> :> <<4,6,2,13,5,10,3,5,0,4,8,11,14,9,0,5,2,8,4,3,10,1,15,7,10,14,10,6,8,2,9,12,10,2,1,13,1,11,7,8,11,13,2,7,5,13,14,9,11,9,1,13,0,12,13,11,7,15,13,9,8,13,14,12>> @@
    (* sha256("2026-10-11") = 71ff362cc834012beccbd071531ecf289dbacc8ad66c1c61138ddf5afb204c19 *)
    <<1, 1>> :> <<7,1,15,15,3,6,2,12,12,8,3,4,0,1,2,11,14,12,12,11,13,0,7,1,5,3,1,14,12,15,2,8,9,13,11,10,12,12,8,10,13,6,6,12,1,12,6,1,1,3,8,13,13,15,5,10,15,11,2,0,4,12,1,9>> @@
    (* sha256("2026-10-12") = 04c17ac53fcbb2057b867357a095d4d5c703f6a4414cae8aec5161cf42f0ccf0 *)
    <<1, 2>> :> <<0,4,12,1,7,10,12,5,3,15,12,11,11,2,0,5,7,11,8,6,7,3,5,7,10,0,9,5,13,4,13,5,12,7,0,3,15,6,10,4,4,1,4,12,10,14,8,10,14,12,5,1,6,1,12,15,4,2,15,0,12,12,15,0>> @@
    (* sha256("2026-10-13") = 25b8fb449a1b1d76be32730ec387a98ddaaff89db9f2211252e5de859eb03ac3 *)
    <<1, 3>> :> <<2,5,11,8,15,11,4,4,9,10,1,11,1,13,7,6,11,14,3,2,7,3,0,14,12,3,8,7,10,9,8,13,13,10,10,15,15,8,9,13,11,9,15,2,2,1,1,2,5,2,14,5,13,14,8,5,9,14,11,0,3,10,12,3>> @@
    (* sha256("2026-10-14") = cf1ac2a9beae735e35b1444074ecd7837d84c90c6d23124248f8d68577b96438 *)
    <<1, 4>> :> <<12,15,1,10,12,2,10,9,11,14,10,14,7,3,5,14,3,5,11,1,4,4,4,0,7,4,14,12,13,7,8,3,7,13,8,4,12,9,0,12,6,13,2,3,1,2,4,2,4,8,15,8,13,6,8,5,7,7,11,9,6,4,3,8>> @@
    (* sha256("2026-10-20") = f39a418bad47ff70c5dd662225dbf883f5860281922887126e9cd180571da79d *)
    <<2, 0>> :> <<15,3,9,10,4,1,8,11,10,13,4,7,15,15,7,0,12,5,13,13,6,6,2,2,2,5,13,11,15,8,8,3,15,5,8,6,0,2,8,1,9,2,2,8,8,7,1,2,6,14,9,12,13,1,8,0,5,7,1,13,10,7,9,13>> @@
    (* sha256("2026-10-21") = cb377837061e51a8a2c5bbf5a4df59256f6901ca120dad7e718c0d23ea5f70cc *)
    <<2, 1>> :> <<12,11,3,7,7,8,3,7,0,6,1,14,5,1,10,8,10,2,12,5,11,11,15,5,10,4,13,15,5,9,2,5,6,15,6,9,0,1,12,10,1,2,0,13,10,13,7,14,7,1,8,12,0,13,2,3,14,10,5,15,7,0,12,12>> @@
    (* sha256("2026-10-22") = 06e45b4dfbddf8fce396407ebb876b0307f800f43cb9104ccad6df07b3bcca0c *)
    <<2, 2>> :> <<0,6,14,4,5,11,4,13,15,11,13,13,15,8,15,12,14,3,9,6,4,0,7,14,11,11,8,7,6,11,0,3,0,7,15,8,0,0,15,4,3,12,11,9,1,0,4,12,12,10,13,6,13,15,0,7,11,3,11,12,12,10,0,12>> @@
    (* sha256("2026-10-23") = 9a5028763b8b5525e18ac9a5a598a4d9994aa77acdcb1e81aac966d11bfa5a5c *)
    <<2, 3>> :> <<9,10,5,0,2,8,7,6,3,11,8,11,5,5,2,5,14,1,8,10,12,9,10,5,10,5,9,8,10,4,13,9,9,9,4,10,10,7,7,10,12,13,12,11,1,14,8,1,10,10,12,9,6,6,13,1,1,11,15,10,5,10,5,12>> @@
    (* sha256("2026-10-24") = fe6225c1ad164429bd7e859f969988ee04d71f0f58f18274bb4ce4fb20077e53 *)
    <<2, 4>> :> <<15,14,6,2,2,5,12,1,10,13,1,6,4,4,2,9,11,13,7,14,8,5,9,15,9,6,9,9,8,8,14,14,0,4,13,7,1,15,0,15,5,8,15,1,8,2,7,4,11,11,4,12,14,4,15,11,2,0,0,7,7,14,5,3>> @@
    (* sha256("2026-10-30") = c9c37f3f041ea4694d0764b4b1dbf3d53551e7be57c4a4823ed2b6981db13c90 *)
    <<3, 0>> :> <<12,9,12,3,7,15,3,15,0,4,1,14,10,4,6,9,4,13,0,7,6,4,11,4,11,1,13,11,15,3,13,5,3,5,5,1,14,7,11,14,5,7,12,4,10,4,8,2,3,14,13,2,11,6,9,8,1,13,11,1,3,12,9,0>> @@
    (* sha256("2026-10-31") = 95d17cab42b9c0ff1c9a10c44cef534e01e57635ffe1d795124538a8ba8575d5 *)
    <<3, 1>> :> <<9,5,13,1,7,12,10,11,4,2,11,9,12,0,15,15,1,12,9,10,1,0,12,4,4,12,14,15,5,3,4,14,0,1,14,5,7,6,3,5,15,15,14,1,13,7,9,5,1,2,4,5,3,8,10,8,11,10,8,5,7,5,13,5>> @@
    (* sha256("2026-10-32") = 2808cbfa599b1b2e3dcd7cab0c2de0d556bc6e0b1023cb447c3a2fb032b78392 *)
    <<3, 2>> :> <<2,8,0,8,12,11,15,10,5,9,9,11,1,11,2,14,3,13,12,13,7,12,10,11,0,12,2,13,14,0,13,5,5,6,11,12,6,14,0,11,1,0,2,3,12,11,4,4,7,12,3,10,2,15,11,0,3,2,11,7,8,3,9,2>> @@
    (* sha256("2026-10-33") = d4604ca3d26e99287cc9cf67837c052c4f9c4ee9520d9425d6ebb25a1971b35e *)
    <<3, 3>> :> <<13,4,6,0,4,12,10,3,13,2,6,14,9,9,2,8,7,12,12,9,12,15,6,7,8,3,7,12,0,5,2,12,4,15,9,12,4,14,14,9,5,2,0,13,9,4,2,5,13,6,14,11,11,2,5,10,1,9,7,1,11,3,5,14>> @@
    (* sha256("2026-10-34") = b70a94b38f6cd02eec7b26a9efcb54d877291c984ce9ea0536f71274223b46e1 *)
    <<3, 4>> :> <<11,7,0,10,9,4,11,3,8,15,6,12,13,0,2,14,14,12,7,11,2,6,10,9,14,15,12,11,5,4,13,8,7,7,2,9,1,12,9,8,4,12,14,9,14,10,0,5,3,6,15,7,1,2,7,4,2,2,3,11,4,6,14,1>> @@
    (* sha256("2026-10-40") = 959adb0fa85fb1b6c9a6378257f459247cea1148886df5d4218efcd50b555aa0 *)
    <<4, 0>> :> <<9,5,9,10,13,11,0,15,10,8,5,15,11,1,11,6,12,9,10,6,3,7,8,2,5,7,15,4,5,9,2,4,7,12,14,10,1,1,4,8,8,8,6,13,15,5,13,4,2,1,8,14,15,12,13,5,0,11,5,5,5,10,10,0>> @@
    (* sha256("2026-10-41") = 4911d8c401fdd9264eaae3677008558b73845b59672c22d047abbb441812c787 *)
    <<4, 1>> :> <<4,9,1,1,13,8,12,4,0,1,15,13,13,9,2,6,4,14,10,10,14,3,6,7,7,0,0,8,5,5,8,11,7,3,8,4,5,11,5,9,6,7,2,12,2,2,13,0,4,7,10,11,11,11,4,4,1,8,1,2,12,7,8,7>> @@
    (* sha256("2026-10-42") = db62285e41b9f3f8c567528deafdc6e5ac0344ceca73ff16a7d492d14a7b2652 *)
    <<4, 2>> :> <<13,11,6,2,2,8,5,14,4,1,11,9,15,3,15,8,12,5,6,7,5,2,8,13,14,10,15,13,12,6,14,5,10,12,0,3,4,4,12,14,12,10,7,3,15,15,1,6,10,7,13,4,9,2,13,1,4,10,7,11,2,6,5,2>> @@
    (* sha256("2026-10-43") = fef4e85dc98be5bbc5e7b00c70007a1ae779c0330ce310b8d44f6784d4e2b999 *)
    <<4, 3>> :> <<15,14,15,4,14,8,5,13,12,9,8,11,14,5,11,11,12,5,14,7,11,0,0,12,7,0,0,0,7,10,1,10,14,7,7,9,12,0,3,3,0,12,14,3,1,0,11,8,13,4,4,15,6,7,8,4,13,4,14,2,11,9,9,9>> @@
    (* sha256("2026-10-44") = 25eec8bb90b9a12badf6f2badceea5f27e7677f25c00c092a6869ba431ceb903 *)
    <<4, 4>> :> <<2,5,14,14,12,8,11,11,9,0,11,9,10,1,2,11,10,13,15,6,15,2,11,10,13,12,14,14,10,5,15,2,7,14,7,6,7,7,15,2,5,12,0,0,12,0,9,2,10,6,8,6,9,11,10,4,3,1,12,14,11,9,0,3>>

\* A 32-bit pattern is kept as the set of the positions (0 = least
\* significant) of its 1 bits.
\* parseInt(s, 16) of eight hexadecimal digits
ParseInt16(digits) ==
    {k \in 0..31 : (digits[8 - (k \div 4)] \div (2 ^ (k % 4))) % 2 = 1}

\* hash.substring(i * 8, i * 8 + 8)
HashWord(hash, i) == ParseInt16(SubSeq(hash, i * 8 + 1, i * 8 + 8))

\* a ^ b on 32-bit patterns
Xor32(a, b) == (a \ b) \cup (b \ a)

\* The loop of selectDishOfTheDay: numericHash after words 0 .. i-1.
RECURSIVE NumericHashBits(_, _)
NumericHashBits(hash, i) ==
    IF i = 0 THEN {}
    ELSE Xor32(NumericHashBits(hash, i - 1), HashWord(hash, i - 1))

\* The value of the low k bits of a pattern.
RECURSIVE LowBits(_, _)
LowBits(w, k) ==
    IF k = 0 THEN 0
    ELSE LowBits(w, k - 1) + (IF (k - 1) \in w THEN 2 ^ (k - 1) ELSE 0)

\* The result of ^ is a signed 32-bit integer: bit 31 weighs -2^31.
ToInt32(w) ==
    IF 31 \in w THEN (LowBits(w, 31) - 2 ^ 30) - 2 ^ 30
    ELSE LowBits(w, 31)

\* numericHash for every (day, nonce) of the digest table
NumericHash ==
    [k \in DOMAIN Sha256Hex |-> ToInt32(NumericHashBits(Sha256Hex[k], 8))]

\* The JavaScript % operator: the result has the sign of the dividend.
JsRem(a, m) == IF a >= 0 THEN a % m ELSE -((-(a + m)) % m)

MathAbs(x) == IF x < 0 THEN -x ELSE x

\* An index from a loop that stops after four words of the digest.
SelectedIndexFourWords(day, n, len) ==
    MathAbs(JsRem(ToInt32(NumericHashBits(Sha256Hex[<<day, n>>], 4)), len))

\* The index selectDishOfTheDay reads: Math.abs(numericHash % dishes.length)
SelectedIndex(day, n, len) ==
    MathAbs(JsRem(NumericHash[<<day, n>>], len))

EmptyDish ==
    [name |-> EmptyName, imageFilePath |-> PlaceholderImage,
     description |-> <<>>, ratings |-> <<>>]

\* A selectDishOfTheDay that hashes only for the first selection after a
\* start, and moves on from the first dish afterwards.
SelectedDishOnce(day, n, dishes) ==
    IF Len(dishes) = 0 THEN EmptyDish
    ELSE IF currentDay = None THEN dishes[SelectedIndex(day, n, Len(dishes)) + 1]
    ELSE dishes[1]

\* The value selectDishOfTheDay assigns to dishOfTheDay.
SelectedDish(day, n, dishes) ==
    IF Len(dishes) = 0 THEN EmptyDish
    ELSE dishes[SelectedIndex(day, n, Len(dishes)) + 1]

\* ------------------------------------------------------------------ state
IdleProc ==
    [pc |-> "idle", op |-> "none", read |-> <<>>, dishes |-> <<>>, idx |-> 0,
     dish |-> None, req |-> None]

Procs == 1..MaxProcs

Awaiting == {p \in Procs : procs[p].pc = "await"}

\* The slot a new suspended invocation takes.
FreeProc == CHOOSE p \in Procs : procs[p].pc = "idle" /\ \A q \in 1..(p - 1) : procs[q].pc # "idle"

CanSuspend ==
    /\ \E p \in Procs : procs[p].pc = "idle"
    /\ nextImage + Cardinality(Awaiting) <= MaxImages

\* The record of a step: the handler, whether the step is its call or the
\* resumption after the await, the request, the outcome ("ok", "pending" or
\* the message of the error thrown), the value returned, and what the step
\* found or did on the image directory.
Step(op, at, req, res, ret, io) ==
    [op |-> op, at |-> at, req |-> req, res |-> res, ret |-> ret, io |-> io]

Init ==
    /\ db = <<>>
    /\ files = {}
    /\ nextImage = 1
    /\ today = 1
    /\ currentDay = None
    /\ dishOfTheDay = None
    /\ nonce = 0
    /\ procs = [p \in Procs |-> IdleProc]
    /\ hung = {}
    /\ running = TRUE
    /\ picked = None
    /\ last = Step("init", "call", None, "ok", None, None)

\* ---------------------------------------------------------------- actions
\* A day change that also starts the nonce again.
TickResetsNonce ==
    /\ today < MaxDay
    /\ today' = today + 1
    /\ nonce' = 0
    /\ last' = Step("tick", "call", None, "ok", None, None)
    /\ UNCHANGED <<db, files, nextImage, currentDay, dishOfTheDay, procs, hung, running, picked>>

\* The calendar day changes.
Tick ==
    /\ today < MaxDay
    /\ today' = today + 1
    /\ last' = Step("tick", "call", None, "ok", None, None)
    /\ UNCHANGED <<db, files, nextImage, currentDay, dishOfTheDay, nonce, procs, hung, running, picked>>

\* GET /get-dishes
GetAllDishes(userId) ==
    /\ last' = Step("getAllDishes", "call", userId, "ok",
                    [i \in 1..Len(db) |-> ToTransport(db[i], userId)], None)
    /\ UNCHANGED <<db, files, nextImage, today, currentDay, dishOfTheDay, nonce, procs, hung, running, picked>>

\* A test that selects only when nothing was selected yet.
NeedsSelectionOnce(day, dish) ==
    day = None \/ dish = None

\* getDishOfTheDay's test for calling selectDishOfTheDay
NeedsSelection(day, dish) ==
    day = None \/ dish = None \/ day[1] # getCurrentDay

\* A selectDishOfTheDay without Math.abs; the read at a negative index finds
\* no dish, shown as the empty dish.
SelectionOfSigned(day, n, dishes) ==
    LET index == IF Len(dishes) = 0 THEN 0
                 ELSE JsRem(NumericHash[<<day, n>>], Len(dishes))
    IN  [day |-> day, nonce |-> n, dishes |-> dishes,
         index |-> IF Len(dishes) = 0 THEN None ELSE Some(index),
         dish |-> IF index + 1 \in 1..Len(dishes) THEN dishes[index + 1] ELSE EmptyDish]

\* One run of selectDishOfTheDay: the day string and the nonce it hashes, the
\* collection it reads, the index it computes (none for the empty
\* collection) and the entity it assigns to dishOfTheDay.
SelectionOf(day, n, dishes) ==
    [day |-> day, nonce |-> n, dishes |-> dishes,
     index |-> IF Len(dishes) = 0 THEN None
               ELSE Some(SelectedIndex(day, n, Len(dishes))),
     dish |-> SelectedDish(day, n, dishes)]

\* GET /dish-of-the-day; the step records the run of selectDishOfTheDay it
\* made, if any, and whether that run is the one kept in picked.
GetDishOfTheDay(userId, remember) ==
    LET selects == NeedsSelection(currentDay, dishOfTheDay)
        selection == SelectionOf(getCurrentDay, nonce, db)
    IN  /\ currentDay' = IF selects THEN Some(selection.day) ELSE currentDay
        /\ dishOfTheDay' = IF selects THEN Some(selection.dish) ELSE dishOfTheDay
        /\ picked' = IF selects /\ remember THEN Some(selection) ELSE picked
        /\ last' = Step("getDishOfTheDay", "call", userId, "ok",
                        ToTransport(dishOfTheDay'[1], userId),
                        IF selects THEN Some([run |-> selection, kept |-> remember])
                        ELSE None)
        /\ UNCHANGED <<db, files, nextImage, today, nonce, procs, hung, running>>

\* A skip that selects before it increments the nonce.
SkipSelectsFirst(userId, remember) ==
    LET selection == SelectionOf(getCurrentDay, nonce, db)
    IN  /\ nonce < MaxNonce
        /\ nonce' = nonce + 1
        /\ currentDay' = Some(selection.day)
        /\ dishOfTheDay' = Some(selection.dish)
        /\ picked' = IF remember THEN Some(selection) ELSE picked
        /\ last' = Step("skipDishOfTheDay", "call", userId, "ok",
                        ToTransport(dishOfTheDay'[1], userId),
                        Some([run |-> selection, kept |-> remember]))
        /\ UNCHANGED <<db, files, nextImage, today, procs, hung, running>>

\* POST /skip-dish-of-the-day: skipDishOfTheDay, then getDishOfTheDay, which
\* finds the day and the dish just assigned.
SkipDishOfTheDay(userId, remember) ==
    LET selection == SelectionOf(getCurrentDay, nonce + 1, db)
    IN  /\ nonce < MaxNonce
        /\ nonce' = nonce + 1
        /\ currentDay' = Some(selection.day)
        /\ dishOfTheDay' = Some(selection.dish)
        /\ picked' = IF remember THEN Some(selection) ELSE picked
        /\ last' = Step("skipDishOfTheDay", "call", userId, "ok",
                        ToTransport(dishOfTheDay'[1], userId),
                        Some([run |-> selection, kept |-> remember]))
        /\ UNCHANGED <<db, files, nextImage, today, procs, hung, running>>

\* The process is started again: the module's variables are initialised
\* anew, the suspended invocations are gone, the files stay.
Restart ==
    /\ currentDay' = None
    /\ dishOfTheDay' = None
    /\ nonce' = 0
    /\ procs' = [p \in Procs |-> IdleProc]
    /\ hung' = hung \cup {procs[p].op : p \in Awaiting}
    /\ running' = TRUE
    /\ last' = Step("restart", "call", None, "ok", None, None)
    /\ UNCHANGED <<db, files, nextImage, today, picked>>

\* A rateDish that pushes the rating without looking for a previous one.
RatedRatingsPush(ratings, rating) ==
    Append(ratings, [rating |-> rating.rating, userId |-> rating.userId])

\* The ratings of a dish after rateDish's update.
RatedRatings(ratings, rating) ==
    IF FindRating(ratings, rating.userId) # 0
    THEN [ratings EXCEPT ![FindRating(ratings, rating.userId)].rating = rating.rating]
    ELSE Append(ratings, [rating |-> rating.rating, userId |-> rating.userId])

\* POST /rate-dish
RateDish(request) ==
    LET dishes == db
        i == FindDish(dishes, request.dishName)
    IN  /\ IF i = 0
           THEN /\ last' = Step("rateDish", "call", request, "Dish does not exist", None, None)
                /\ UNCHANGED db
           ELSE LET ratings == RatedRatings(dishes[i].ratings, request.rating)
                IN  /\ db' = [dishes EXCEPT ![i].ratings = ratings]
                    /\ last' = Step("rateDish", "call", request, "ok",
                                    Some(avg(RatingValuesOf(ratings))), None)
        /\ UNCHANGED <<files, nextImage, today, currentDay, dishOfTheDay, nonce, procs, hung, running, picked>>

\* deleteDishImage: the files left after it
DeleteDishImage(fs, dish) ==
    IF dish.imageFilePath \in fs THEN fs \ {dish.imageFilePath} ELSE fs

\* POST /delete-dish
DeleteDish(request) ==
    LET dishes == db
        i == FindDish(dishes, request.dishName)
    IN  /\ IF i = 0
           THEN /\ last' = Step("deleteDish", "call", request, "Dish does not exist", None, None)
                /\ UNCHANGED <<db, files>>
           ELSE /\ files' = DeleteDishImage(files, dishes[i])
                /\ db' = Splice(dishes, i)
                /\ last' = Step("deleteDish", "call", request, "ok", None,
                                Some([imageFilePath |-> dishes[i].imageFilePath,
                                      existed |-> dishes[i].imageFilePath \in files]))
        /\ UNCHANGED <<nextImage, today, currentDay, dishOfTheDay, nonce, procs, hung, running, picked>>

\* fileTypeFromBuffer(Buffer.from(image, 'base64')) finds a file type
HasFileType(image) == image = "png"

\* The entity addDish pushes.
NewDish(dish, imageFilePath) ==
    [name |-> Trim(dish.name[1]),
     imageFilePath |-> imageFilePath,
     description |-> IF dish.description = None THEN <<>> ELSE dish.description[1],
     ratings |-> <<>>]

\* addDish's test for 'Dish already exists'
AlreadyExists(dishes, dish) == FindDish(dishes, dish.name[1]) # 0

\* POST /add-dish, up to the await in processDishImage
AddDish(dish) ==
    LET dishes == db
    IN  /\ IF validateIncomingDish(dish) # "ok"
           THEN /\ last' = Step("addDish", "call", dish, validateIncomingDish(dish), None, None)
                /\ UNCHANGED procs
           ELSE IF AlreadyExists(dishes, dish)
           THEN /\ last' = Step("addDish", "call", dish, "Dish already exists", None, None)
                /\ UNCHANGED procs
           ELSE /\ CanSuspend
                /\ procs' = [procs EXCEPT ![FreeProc] =
                                [pc |-> "await", op |-> "addDish", read |-> dishes,
                                 dishes |-> dishes, idx |-> 0, dish |-> dish, req |-> dish]]
                /\ last' = Step("addDish", "call", dish, "pending", None, None)
        /\ UNCHANGED <<db, files, nextImage, today, currentDay, dishOfTheDay, nonce, hung, running, picked>>

\* The entity editDish leaves at the matched index before the image is handled.
EditedDish(old, updatedDish) ==
    [old EXCEPT !.name = Trim(updatedDish.name[1]),
                !.description = IF updatedDish.description = None THEN <<>>
                                ELSE updatedDish.description[1]]

\* POST /edit-dish, up to the await in processDishImage (or to the end when
\* the image is not replaced)
EditDish(request) ==
    LET dishes == db
        i == FindDish(dishes, request.dishName)
        updatedDish == request.updatedDish
    IN  IF validateIncomingDish(updatedDish) # "ok"
        THEN /\ last' = Step("editDish", "call", request, validateIncomingDish(updatedDish), None, None)
             /\ UNCHANGED <<db, files, nextImage, today, currentDay, dishOfTheDay, nonce, procs, hung, running, picked>>
        ELSE IF i = 0
        THEN /\ last' = Step("editDish", "call", request, "Dish does not exist", None, None)
             /\ UNCHANGED <<db, files, nextImage, today, currentDay, dishOfTheDay, nonce, procs, hung, running, picked>>
        ELSE LET edited == [dishes EXCEPT ![i] = EditedDish(dishes[i], updatedDish)]
             IN  IF updatedDish.image[1] # ""
                 THEN /\ CanSuspend
                      /\ files' = DeleteDishImage(files, edited[i])
                      /\ procs' = [procs EXCEPT ![FreeProc] =
                                      [pc |-> "await", op |-> "editDish", read |-> dishes,
                                       dishes |-> edited, idx |-> i, dish |-> updatedDish,
                                       req |-> request]]
                      /\ last' = Step("editDish", "call", request, "pending", None, None)
                      /\ UNCHANGED <<db, nextImage, today, currentDay, dishOfTheDay, nonce, hung, running, picked>>
                 ELSE /\ db' = edited
                      /\ last' = Step("editDish", "call", request, "ok", None, None)
                      /\ UNCHANGED <<files, nextImage, today, currentDay, dishOfTheDay,
                                     nonce, procs, hung, running, picked>>

\* processDishImage when no file type is detected: fileType.ext throws inside
\* the async promise executor, so the promise is never settled and the
\* invocation that awaits it never continues.  The rejection of the executor
\* is unhandled: depending on the runtime's unhandled-rejections mode the
\* process goes on (exits = FALSE) or terminates (exits = TRUE), and then no
\* suspended invocation continues.
ImageTypeUndetected(p, exits) ==
    /\ procs[p].pc = "await"
    /\ ~HasFileType(procs[p].dish.image[1])
    /\ procs' = IF exits THEN [q \in Procs |-> IdleProc]
                ELSE [procs EXCEPT ![p] = IdleProc]
    /\ hung' = hung \cup (IF exits THEN {procs[q].op : q \in Awaiting} ELSE {procs[p].op})
    /\ running' = ~exits
    /\ last' = Step(procs[p].op, "resume", procs[p].req, "never settles", None, None)
    /\ UNCHANGED <<db, files, nextImage, today, currentDay, dishOfTheDay, nonce, picked>>

\* The files after gm's write of the processed image: the write callback is
\* called whether or not the write succeeded.
WrittenFiles(fs, imageFilePath, written) ==
    IF written THEN fs \cup {imageFilePath} ELSE fs

\* A continuation that reads the collection again before it writes.
ContinuationRereads(proc, imageFilePath) ==
    IF proc.op = "addDish"
    THEN Append(db, NewDish(proc.dish, imageFilePath))
    ELSE IF proc.idx <= Len(db)
    THEN [db EXCEPT ![proc.idx] = [proc.dishes[proc.idx] EXCEPT
                                      !.imageFilePath = imageFilePath,
                                      !.ratings = db[proc.idx].ratings]]
    ELSE db

\* What the suspended invocation writes once processDishImage resolves.
Continuation(proc, imageFilePath) ==
    IF proc.op = "addDish"
    THEN Append(proc.dishes, NewDish(proc.dish, imageFilePath))
    ELSE [proc.dishes EXCEPT ![proc.idx].imageFilePath = imageFilePath]

\* processDishImage resolves (gm's write callback runs) and the suspended
\* addDish / editDish continues to its write; the step records whether the
\* collection it read before the await is still the persisted one.
ImageProcessed(p, written) ==
    /\ procs[p].pc = "await"
    /\ HasFileType(procs[p].dish.image[1])
    /\ nextImage <= MaxImages
    /\ nextImage' = nextImage + 1
    /\ files' = WrittenFiles(files, nextImage, written)
    /\ db' = Continuation(procs[p], nextImage)
    /\ procs' = [procs EXCEPT ![p] = IdleProc]
    /\ last' = Step(procs[p].op, "resume", procs[p].req, "ok", None,
                    Some([imageFilePath |-> nextImage, written |-> written,
                          stale |-> db # procs[p].read]))
    /\ UNCHANGED <<today, currentDay, dishOfTheDay, nonce, hung, running, picked>>

\* ------------------------------------------------------------ requests
\* The requests a specification sends: I gives the names, images and
\* descriptions of incoming dishes, the names asked for, the users, the
\* rating values, whether gm's write of a processed image can fail, and
\* whether a run of selectDishOfTheDay is kept in picked.
IncomingDishes(I) == [name : I.names, image : I.images, description : I.descriptions]

RatingRequests(I) ==
    [dishName : I.dishNames, rating : [userId : I.users, rating : I.ratings]]

DeleteRequests(I) == [dishName : I.dishNames]

EditRequests(I) == [dishName : I.dishNames, updatedDish : IncomingDishes(I)]

\* The writing handlers of the repository; a handler runs only while the
\* process does.
Repository(I) ==
    \/ running /\ \E request \in RatingRequests(I) : RateDish(request)
    \/ running /\ \E request \in DeleteRequests(I) : DeleteDish(request)
    \/ running /\ \E dish \in IncomingDishes(I) : AddDish(dish)
    \/ running /\ \E request \in EditRequests(I) : EditDish(request)
    \/ running /\ \E p \in Procs, written \in I.written : ImageProcessed(p, written)

\* The reading handlers and the clock.
Selector(I) ==
    \/ running /\ Tick
    \/ running /\ \E userId \in I.users : GetAllDishes(userId)
    \/ running /\ \E userId \in I.users, remember \in I.remember :
                    GetDishOfTheDay(userId, remember)
    \/ running /\ \E userId \in I.users, remember \in I.remember :
                    SkipDishOfTheDay(userId, remember)

\* Every handler, for two plainly named dishes and one user; image writes
\* succeed.
Inputs ==
    [names |-> {Some(Soup), Some(Tea)},
     images |-> {Some(""), Some("png")},
     descriptions |-> {None},
     dishNames |-> {Soup, Tea},
     users |-> {"u1"},
     ratings |-> {3},
     written |-> {TRUE},
     remember |-> {FALSE}]

Next == Repository(Inputs) \/ Selector(Inputs)

Spec == Init /\ [][Next]_vars

\* The repository under names with surrounding whitespace, missing fields,
\* images of no detectable type and failing image writes.
NameInputs ==
    [names |-> {None, Some(Soup), Some(SpSoup), Some(Blank)},
     images |-> {None, Some(""), Some("png"), Some("junk")},
     descriptions |-> {None},
     dishNames |-> {Soup, SpSoup, <<>>},
     users |-> {"u1"},
     ratings |-> {3},
     written |-> BOOLEAN,
     remember |-> {FALSE}]

NextNames ==
    \/ Repository(NameInputs)
    \/ running /\ \E p \in Procs, exits \in BOOLEAN : ImageTypeUndetected(p, exits)

SpecNames == Init /\ [][NextNames]_vars

\* The repository under two users and two rating values; the requests ask
\* for "Soup", and a dish is called "Tea" when added or renamed so.
RatingInputs ==
    [names |-> {Some(Soup), Some(Tea)},
     images |-> {Some(""), Some("png")},
     descriptions |-> {None},
     dishNames |-> {Soup},
     users |-> {"u1", "u2"},
     ratings |-> {2, 5},
     written |-> {TRUE},
     remember |-> {FALSE}]

NextRatings == Repository(RatingInputs)

SpecRatings == Init /\ [][NextRatings]_vars

\* The repository under deletes: the requests ask for "Soup" and " Soup",
\* the records are called "Soup" (several of them, once " Soup" was added)
\* and "Tea", and image writes can fail.
DeleteInputs ==
    [names |-> {Some(Soup), Some(SpSoup), Some(Tea)},
     images |-> {Some(""), Some("png")},
     descriptions |-> {None},
     dishNames |-> {Soup, SpSoup},
     users |-> {"u1"},
     ratings |-> {3},
     written |-> BOOLEAN,
     remember |-> {FALSE}]

NextDelete == Repository(DeleteInputs)

SpecDelete == Init /\ [][NextDelete]_vars

\* Every handler and the clock, for one dish and one user.
OpsInputs ==
    [names |-> {Some(Soup)},
     images |-> {Some(""), Some("png")},
     descriptions |-> {None},
     dishNames |-> {Soup},
     users |-> {"u1"},
     ratings |-> {3},
     written |-> {TRUE},
     remember |-> {FALSE}]

NextOps ==
    \/ Repository(OpsInputs)
    \/ Selector(OpsInputs)
    \/ running /\ \E p \in Procs, exits \in BOOLEAN : ImageTypeUndetected(p, exits)

SpecOps == Init /\ [][NextOps]_vars

\* The callbacks of image processing: the event loop runs one whenever an
\* invocation waits for it.
ImageCallbacks ==
    /\ running
    /\ \E p \in Procs :
          \/ \E written \in OpsInputs.written : ImageProcessed(p, written)
          \/ \E exits \in BOOLEAN : ImageTypeUndetected(p, exits)

SpecOpsFair == SpecOps /\ WF_vars(ImageCallbacks)

\* ------------------------------------------------- selection on its inputs
\* The names of the dishes of a stored collection, in the order added.
StoredDishNames == <<Soup, Tea, <<"Rice">>, <<"Stew">>, <<"Cake">>>>

\* The collection after n dishes were added: the k-th has the k-th image.
StoredDishes(n) ==
    [k \in 1..n |-> [name |-> StoredDishNames[k], imageFilePath |-> k,
                     description |-> <<>>, ratings |-> <<>>]]

\* The days and nonces whose digest Sha256Hex holds.
DigestDays == {k[1] : k \in DOMAIN Sha256Hex}
DigestNonces == {k[2] : k \in DOMAIN Sha256Hex}

\* The process on some day, after some dishes were added and the selection
\* was then skipped some times, that day or an earlier one:
\* selectDishOfTheDay is run from here on every digest and on collections of
\* every length up to MaxLen.
InitSelection ==
    /\ db \in {StoredDishes(n) : n \in 0..MaxLen}
    /\ files = {db[k].imageFilePath : k \in 1..Len(db)}
    /\ nextImage = Len(db) + 1
    /\ today \in DigestDays
    /\ nonce \in DigestNonces
    /\ currentDay \in IF nonce = 0 THEN {None}
                      ELSE {Some(day) : day \in {d \in DigestDays : d <= today}}
    /\ dishOfTheDay = IF nonce = 0 THEN None
                      ELSE Some(SelectedDish(currentDay[1], nonce, db))
    /\ procs = [p \in Procs |-> IdleProc]
    /\ hung = {}
    /\ running = TRUE
    /\ picked = None
    /\ last = Step("init", "call", None, "ok", None, None)

\* The selection under ratings, deletions, the clock and restarts of the
\* process; any earlier run of selectDishOfTheDay may be the one remembered.
SelectionInputs ==
    [names |-> {},
     images |-> {},
     descriptions |-> {},
     dishNames |-> {Soup},
     users |-> {"u1"},
     ratings |-> {2, 5},
     written |-> {},
     remember |-> BOOLEAN]

NextSelection ==
    \/ Selector(SelectionInputs)
    \/ running /\ \E request \in RatingRequests(SelectionInputs) : RateDish(request)
    \/ running /\ \E request \in DeleteRequests(SelectionInputs) : DeleteDish(request)
    \/ Restart

SpecSelection == InitSelection /\ [][NextSelection]_vars

\* The same from a process that has not selected yet, with the latest run of
\* selectDishOfTheDay always the one remembered.
CacheInputs == [SelectionInputs EXCEPT !.remember = {TRUE}]

InitCache == InitSelection /\ nonce = 0

NextCache ==
    \/ Selector(CacheInputs)
    \/ running /\ \E request \in RatingRequests(CacheInputs) : RateDish(request)
    \/ running /\ \E request \in DeleteRequests(CacheInputs) : DeleteDish(request)
    \/ Restart

SpecCache == InitCache /\ [][NextCache]_vars

\* Collections of up to MaxLen dishes, rated by two users, deleted from,
\* listed and read as the dish of the day, on the first day.
ListInputs ==
    [SelectionInputs EXCEPT !.dishNames = {Soup, Tea},
                            !.users = {"u1", "u2"},
                            !.remember = {FALSE}]

InitList == InitSelection /\ today = 1 /\ nonce <= 1

NextList ==
    \/ running /\ \E request \in RatingRequests(ListInputs) : RateDish(request)
    \/ running /\ \E request \in DeleteRequests(ListInputs) : DeleteDish(request)
    \/ running /\ \E userId \in ListInputs.users : GetAllDishes(userId)
    \/ running /\ \E userId \in ListInputs.users, remember \in ListInputs.remember :
                    GetDishOfTheDay(userId, remember)

SpecList == InitList /\ [][NextList]_vars
\* ------------------------------------------------------------------ claims
\* The names of the persisted records.
StoredNames == {db[i].name : i \in 1..Len(db)}

\* C1 (first half): while nothing was ever stored in the repository,
\* getDishOfTheDay returns the view of the empty dish.
C1_EmptyGivesSentinel ==
    (last.op = "getDishOfTheDay" /\ db = <<>> /\ nextImage = 1)
        => (last.ret.name = EmptyName /\ last.ret.imageFilePath = PlaceholderImage)

\* C1: once the single dish "Soup" was added to the empty repository, a
\* getDishOfTheDay returns "Soup", also when an earlier getDishOfTheDay
\* cached the empty dish on the same day.
C1_TodayIsSoupAfterAdd ==
    (/\ last.op = "getDishOfTheDay"
     /\ nextImage = 2
     /\ Len(db) = 1
     /\ db[1].name = Soup)
        => last.ret.name = Soup

\* C2: no two records of the persisted collection have the same name.
C2_NamesUnique ==
    \A i, j \in 1..Len(db) : i # j => db[i].name # db[j].name

\* C3: a call of addDish whose name, trimmed, is the name of a persisted
\* record fails with 'Dish already exists' and leaves the collection as it was.
C3_TrimmedConflict ==
    [][(/\ last'.op = "addDish"
        /\ last'.at = "call"
        /\ validateIncomingDish(last'.req) = "ok"
        /\ Trim(last'.req.name[1]) \in StoredNames)
           => (last'.res = "Dish already exists" /\ db' = db)]_vars

\* C4: every persisted record has a non-empty name without leading or
\* trailing whitespace.
C4_NamesTrimmedNonEmpty ==
    \A i \in 1..Len(db) :
        /\ db[i].name # <<>>
        /\ Head(db[i].name) # " "
        /\ db[i].name[Len(db[i].name)] # " "

\* The indices of the entries of a user in a dish's ratings.
EntriesOf(ratings, userId) == {k \in 1..Len(ratings) : ratings[k].userId = userId}

\* C5: every persisted dish holds at most one rating entry per user.
C5_OneRatingPerUser ==
    \A i \in 1..Len(db) : \A k, l \in 1..Len(db[i].ratings) :
        k # l => db[i].ratings[k].userId # db[i].ratings[l].userId

\* C5 witness: a rating was overwritten in a dish that two users have rated
\* (the user of the last rateDish holds the first of the dish's two entries).
C5_Witness ==
    /\ last.op = "rateDish"
    /\ last.res = "ok"
    /\ \E i \in 1..Len(db) :
          /\ db[i].name = last.req.dishName
          /\ Len(db[i].ratings) = 2
          /\ db[i].ratings[1].userId = last.req.rating.userId

\* C6: a successful rateDish(name, userId, r) leaves the first dish of that
\* name with exactly one entry for userId, of value r, leaves the entries of
\* every other user of the dish as they were, persists the dish, and returns
\* the mean of the persisted ratings of the dish.
C6_RateUpdatesAndAverages ==
    [][(last'.op = "rateDish" /\ last'.res = "ok") =>
        \E i \in 1..Len(db) :
            LET userId == last'.req.rating.userId
                before == db[i].ratings
                after == db'[i].ratings
            IN  /\ db[i].name = last'.req.dishName
                /\ \A j \in 1..(i - 1) : db[j].name # last'.req.dishName
                /\ Len(db') = Len(db)
                /\ Cardinality(EntriesOf(after, userId)) = 1
                /\ \A k \in EntriesOf(after, userId) : after[k].rating = last'.req.rating.rating
                /\ \A u \in {before[k].userId : k \in 1..Len(before)}
                          \cup {after[k].userId : k \in 1..Len(after)} :
                      u # userId =>
                          /\ Cardinality(EntriesOf(after, u)) = Cardinality(EntriesOf(before, u))
                          /\ {after[k].rating : k \in EntriesOf(after, u)}
                                = {before[k].rating : k \in EntriesOf(before, u)}
                /\ last'.ret # None
                /\ last'.ret[1].den > 0
                /\ last'.ret[1].num * Len(after)
                      = last'.ret[1].den * SumOf(RatingValuesOf(after))]_vars

\* C6 witness: a rateDish overwrote a user's rating in a dish another user
\* has rated, and the mean it returned is not a whole number.
C6_Witness ==
    /\ last.op = "rateDish"
    /\ last.res = "ok"
    /\ last.ret[1].den = 2
    /\ \E i \in 1..Len(db) :
          /\ db[i].name = last.req.dishName
          /\ Len(db[i].ratings) = 2
          /\ db[i].ratings[1].userId = last.req.rating.userId

\* C7: a deleteDish whose name matches no persisted record fails with
\* 'Dish does not exist' and leaves the collection and the image files as
\* they were.
C7_DeleteMissing ==
    [][(last'.op = "deleteDish" /\ last'.req.dishName \notin StoredNames)
          => (/\ last'.res = "Dish does not exist"
              /\ db' = db
              /\ files' = files)]_vars

\* C7 witness: a deleteDish failed while records and image files exist.
C7_Witness ==
    /\ last.op = "deleteDish"
    /\ last.res = "Dish does not exist"
    /\ db # <<>>
    /\ files # {}

\* C8: a deleteDish whose name matches a record succeeds, whether or not the
\* record's image file exists; afterwards the first record of that name is
\* gone from the collection, its image file does not exist, and the other
\* records are there in their order.
C8_DeleteRemoves ==
    [][(last'.op = "deleteDish" /\ last'.req.dishName \in StoredNames) =>
        \E i \in 1..Len(db) :
            /\ db[i].name = last'.req.dishName
            /\ \A j \in 1..(i - 1) : db[j].name # last'.req.dishName
            /\ last'.res = "ok"
            /\ db[i].imageFilePath \notin files'
            /\ \A k \in 1..Len(db') : db'[k] # db[i]
            /\ Len(db') = Len(db) - 1
            /\ \A k \in 1..Len(db') : db'[k] = IF k < i THEN db[k] ELSE db[k + 1]]_vars

\* C8 witness: a deleteDish succeeded on a record whose image file was
\* already absent, and another record stays in the collection.
C8_Witness ==
    /\ last.op = "deleteDish"
    /\ last.res = "ok"
    /\ ~last.io[1].existed
    /\ db # <<>>

\* C8 witness of the ordinary case: the image file existed and was removed.
C8_WitnessFileRemoved ==
    /\ last.op = "deleteDish"
    /\ last.res = "ok"
    /\ last.io[1].existed
    /\ db # <<>>

\* C9: the image file of every persisted record exists.
C9_ImagesExist ==
    \A i \in 1..Len(db) : db[i].imageFilePath \in files

\* C10: when the write of the processed image failed, the addDish or
\* editDish that waited for it persists no record that refers to the image.
C10_NoRecordOfFailedImage ==
    (/\ last.at = "resume"
     /\ last.io # None
     /\ ~last.io[1].written)
        => \A i \in 1..Len(db) : db[i].imageFilePath # last.io[1].imageFilePath

\* The steps that ran selectDishOfTheDay.
Selected(step) ==
    /\ step.op \in {"getDishOfTheDay", "skipDishOfTheDay"}
    /\ step.io # None

SameSelectionInputs(a, b) ==
    a.day = b.day /\ a.nonce = b.nonce /\ a.dishes = b.dishes

C12_NonceBySkipOnly ==
    [][IF last'.op = "skipDishOfTheDay" THEN nonce' = nonce + 1
       ELSE nonce' = nonce]_vars

\* A dish is rated after a skip and a later change of day.
C12_Witness ==
    /\ nonce >= 1
    /\ currentDay # None
    /\ currentDay[1] < today
    /\ last.op = "rateDish"
    /\ last.res = "ok"

\* The cache is fresh for today and holds the selection for today's day
\* string, the current nonce and the collection as persisted now.
HoldsSelection ==
    /\ picked # None
    /\ picked[1].day = today
    /\ picked[1].nonce = nonce
    /\ picked[1].dishes = db
    /\ currentDay = Some(today)
    /\ dishOfTheDay = Some(picked[1].dish)

\* C13: a skip selects at once: after it the cache is fresh for today and
\* holds the selection for today, the incremented nonce and the collection
\* read during the skip, which is what the skip returns; reading the dish of
\* the day from such a state returns that selection and selects nothing,
\* and listing keeps the state; on a single dish the selection is that dish.
C13_SkipSelectsEagerly ==
    [][/\ last'.op = "skipDishOfTheDay"
            => (/\ HoldsSelection'
                /\ nonce' = nonce + 1
                /\ picked'[1].dishes = db
                /\ last'.io # None
                /\ last'.ret = ToTransport(picked'[1].dish, last'.req)
                /\ Len(db) = 1 => last'.ret.name = db[1].name)
       /\ (HoldsSelection /\ last'.op = "getDishOfTheDay")
            => (/\ HoldsSelection'
                /\ last'.io = None
                /\ picked' = picked
                /\ last'.ret = ToTransport(picked[1].dish, last'.req)
                /\ Len(db) = 1 => last'.ret.name = db[1].name)
       /\ (HoldsSelection /\ last'.op = "getAllDishes")
            => HoldsSelection']_vars

\* The dish of the day is read on the day of a skip, from the collection of
\* two dishes or more the skip read, and nothing is selected.
C13_Witness ==
    /\ HoldsSelection
    /\ today = 1
    /\ nonce >= 1
    /\ Len(db) >= 2
    /\ last.op = "getDishOfTheDay"
    /\ last.io = None

\* C14: reading the dish of the day runs selectDishOfTheDay when nothing was
\* selected yet or the cached day is not today, on today's day string, the
\* current nonce and the persisted collection; it runs nothing when the
\* cached day is today and a dish is cached; either way the cached day is
\* today afterwards and the dish returned is the one the latest run, made on
\* today's day string, selected.
C14_GetSelectsWhenStale ==
    [][last'.op = "getDishOfTheDay"
        => (/\ currentDay' = Some(today)
            /\ picked' # None
            /\ picked'[1].day = today
            /\ dishOfTheDay' = Some(picked'[1].dish)
            /\ last'.ret = ToTransport(picked'[1].dish, last'.req)
            /\ (currentDay = None \/ dishOfTheDay = None \/ currentDay # Some(today))
                    => (/\ last'.io # None
                        /\ picked' = Some(last'.io[1].run)
                        /\ picked'[1].nonce = nonce
                        /\ picked'[1].dishes = db)
            /\ (currentDay = Some(today) /\ dishOfTheDay # None)
                    => (/\ last'.io = None
                        /\ picked' = picked
                        /\ dishOfTheDay' = dishOfTheDay))]_vars

\* After a skip the day changed, and reading the dish of the day selected
\* again among two dishes or more.
C14_Witness ==
    /\ last.op = "getDishOfTheDay"
    /\ last.io # None
    /\ nonce >= 1
    /\ Len(db) >= 2
    /\ currentDay = Some(today)

\* C15: a suspended add or edit writes back the collection it read before
\* the await with only its own change applied, and reports success: every
\* other record of what it writes is the record it read, so a change another
\* writer persisted in between is gone; and only steps that report success
\* change the collection, so the other writer reported none either.
C15_WriterWritesBackWhatItRead ==
    [][/\ (last'.at = "resume" /\ last'.res = "ok")
            => \E p \in Awaiting :
                  /\ procs'[p].pc = "idle"
                  /\ last'.io[1].stale = (db # procs[p].read)
                  /\ IF procs[p].op = "addDish"
                     THEN /\ Len(db') = Len(procs[p].read) + 1
                          /\ \A k \in 1..Len(procs[p].read) : db'[k] = procs[p].read[k]
                     ELSE /\ Len(db') = Len(procs[p].read)
                          /\ \A k \in 1..Len(procs[p].read) :
                                k # procs[p].idx => db'[k] = procs[p].read[k]
                          /\ db'[procs[p].idx].ratings = procs[p].read[procs[p].idx].ratings
       /\ db' # db => last'.res = "ok"]_vars

\* An edit that replaces the image resumes and reports success after a rating
\* was persisted during its await: the collection holds no rating.
C15_Witness ==
    /\ last.op = "editDish"
    /\ last.at = "resume"
    /\ last.res = "ok"
    /\ last.io[1].stale
    /\ Len(db) = 1
    /\ db[1].ratings = <<>>

\* An add resumes and reports success after the collection it read was
\* changed during its await.
C15_WitnessAdd ==
    /\ last.op = "addDish"
    /\ last.at = "resume"
    /\ last.res = "ok"
    /\ last.io[1].stale
    /\ Len(db) = 2

\* C16: every add and edit that waits for its image is eventually resumed
\* and answers its caller, with success or with an error.
C16_AddAndEditSettle ==
    \A p \in Procs :
        (procs[p].pc = "await")
            ~> (/\ procs[p].pc = "idle"
                /\ last.at = "resume"
                /\ last.res # "never settles")

\* C17: getAllDishes returns one view per persisted record, in the stored
\* order, with the record's name, image and description, the mean of its
\* rating values (0 without ratings) and the rating the asking user gave
\* (none if the user gave none); it changes neither the collection, the
\* files, the cached day and dish, nor the nonce.
C17_ListAll ==
    [][last'.op = "getAllDishes"
        => (/\ Len(last'.ret) = Len(db)
            /\ \A i \in 1..Len(db) :
                  LET view == last'.ret[i]
                      ratings == db[i].ratings
                      mine == {k \in 1..Len(ratings) : ratings[k].userId = last'.req}
                  IN  /\ view.name = db[i].name
                      /\ view.imageFilePath = db[i].imageFilePath
                      /\ view.description = db[i].description
                      /\ view.rating.den > 0
                      /\ IF ratings = <<>> THEN view.rating.num = 0
                         ELSE view.rating.num * Len(ratings)
                                = view.rating.den * SumOf(RatingValuesOf(ratings))
                      /\ IF mine = {} THEN view.yourRating = None
                         ELSE /\ view.yourRating # None
                              /\ \E k \in mine : ratings[k].rating = view.yourRating[1]
            /\ db' = db
            /\ files' = files
            /\ currentDay' = currentDay
            /\ dishOfTheDay' = dishOfTheDay
            /\ nonce' = nonce)]_vars

\* Two dishes are listed for a user who rated neither, the first rated by
\* the other user, while a dish of the day is cached.
C17_Witness ==
    /\ last.op = "getAllDishes"
    /\ Len(db) = 2
    /\ Len(db[1].ratings) = 1
    /\ db[1].ratings[1].userId # last.req
    /\ last.ret[1].yourRating = None
    /\ last.ret[1].rating.num > 0
    /\ dishOfTheDay # None

\* A dish with two ratings whose mean is no integer is listed.
C17_WitnessMean ==
    /\ last.op = "getAllDishes"
    /\ Len(db) >= 1
    /\ Len(db[1].ratings) = 2
    /\ last.ret[1].rating.den = 2
    /\ last.ret[1].yourRating # None

\* The record an edit leaves for the record old: name and description from
\* the request, position and ratings as they were.
EditedInPlace(new, old, updatedDish) ==
    /\ new.name = Trim(updatedDish.name[1])
    /\ new.description = (IF updatedDish.description = None THEN <<>>
                          ELSE updatedDish.description[1])
    /\ new.ratings = old.ratings

\* C18: a successful edit changes the matched record in place.  Without a
\* new image the record keeps its image reference and the file stays; with
\* a new image the old file is gone and the record refers to a new image
\* that is stored.  Position and ratings of the record and all other records
\* are as the edit read them.
C18_EditInPlace ==
    [][/\ (last'.op = "editDish" /\ last'.at = "call" /\ last'.res = "ok")
            => LET i == FindDish(db, last'.req.dishName)
               IN  /\ Len(db') = Len(db)
                   /\ EditedInPlace(db'[i], db[i], last'.req.updatedDish)
                   /\ db'[i].imageFilePath = db[i].imageFilePath
                   /\ files' = files
                   /\ \A k \in 1..Len(db) : k # i => db'[k] = db[k]
       /\ (last'.op = "editDish" /\ last'.at = "resume" /\ last'.res = "ok")
            => \E p \in Awaiting :
                  LET read == procs[p].read
                      i == procs[p].idx
                  IN  /\ procs'[p].pc = "idle"
                      /\ Len(db') = Len(read)
                      /\ EditedInPlace(db'[i], read[i], last'.req.updatedDish)
                      /\ db'[i].imageFilePath # read[i].imageFilePath
                      /\ read[i].imageFilePath \notin files'
                      /\ db'[i].imageFilePath \in files'
                      /\ \A k \in 1..Len(read) : k # i => db'[k] = read[k]]_vars

\* C19: every run of selectDishOfTheDay on a collection of n > 0 dishes
\* computes an index in 0..n-1, also when the XOR of the digest's words is
\* negative as a signed 32-bit integer, and caches the record at that index.
C19_IndexInRange ==
    (Selected(last) /\ last.io[1].run.dishes # <<>>)
        => LET run == last.io[1].run
           IN  /\ run.index # None
               /\ run.index[1] \in 0..(Len(run.dishes) - 1)
               /\ run.dish = run.dishes[run.index[1] + 1]
               /\ dishOfTheDay = Some(run.dish)

\* A run on three dishes whose XOR is negative and leaves a negative
\* remainder.
C19_Witness ==
    /\ Selected(last)
    /\ Len(last.io[1].run.dishes) = 3
    /\ NumericHash[<<last.io[1].run.day, last.io[1].run.nonce>>] < 0
    /\ JsRem(NumericHash[<<last.io[1].run.day, last.io[1].run.nonce>>], 3) < 0
    /\ last.io[1].run.index # None
    /\ last.io[1].run.index[1] > 0

\* 2^k modulo n
RECURSIVE PowMod(_, _)
PowMod(k, n) == IF k = 0 THEN 1 % n ELSE (2 * PowMod(k - 1, n)) % n

\* The value of the low k bits of a 32-bit pattern, modulo n.
RECURSIVE LowBitsMod(_, _, _)
LowBitsMod(w, k, n) ==
    IF k = 0 THEN 0
    ELSE (LowBitsMod(w, k - 1, n) + (IF (k - 1) \in w THEN PowMod(k - 1, n) ELSE 0)) % n

\* A 32-bit pattern read as an unsigned integer, modulo n.
UnsignedMod(w, n) == LowBitsMod(w, 32, n)

\* The XOR of the first count 4-byte big-endian words of the digest hashed
\* by a run of selectDishOfTheDay.
FoldOfRun(run, count) == NumericHashBits(Sha256Hex[<<run.day, run.nonce>>], count)

\* C20 as stated: on a collection of n > 0 dishes the index is the XOR of
\* four consecutive 4-byte big-endian words of the digest, read as an
\* unsigned 32-bit integer, modulo n.
C20_IndexIsFourWordFold ==
    (Selected(last) /\ last.io[1].run.dishes # <<>>)
        => LET run == last.io[1].run
           IN  run.index = Some(UnsignedMod(FoldOfRun(run, 4), Len(run.dishes)))

\* C20: on a collection of n > 0 dishes the index is the XOR of all eight
\* 4-byte big-endian words of the digest of day string and nonce, read as a
\* signed 32-bit integer s, as |s| modulo n: u mod n for the unsigned
\* reading u below 2^31, and (2^32 - u) mod n from 2^31 on.
C20_IndexIsEightWordFold ==
    (Selected(last) /\ last.io[1].run.dishes # <<>>)
        => LET run == last.io[1].run
               n == Len(run.dishes)
               fold == FoldOfRun(run, 8)
           IN  run.index = Some(IF 31 \in fold
                                THEN (PowMod(32, n) + n - UnsignedMod(fold, n)) % n
                                ELSE UnsignedMod(fold, n))

\* A run on three dishes whose eight-word XOR is negative, and whose index
\* is neither the four-word nor the eight-word XOR read unsigned, modulo 3.
C20_Witness ==
    /\ Selected(last)
    /\ Len(last.io[1].run.dishes) = 3
    /\ 31 \in FoldOfRun(last.io[1].run, 8)
    /\ last.io[1].run.index # Some(UnsignedMod(FoldOfRun(last.io[1].run, 8), 3))
    /\ last.io[1].run.index # Some(UnsignedMod(FoldOfRun(last.io[1].run, 4), 3))

\* The view of the empty dish.
IsSentinel(view) ==
    view.name = EmptyName /\ view.imageFilePath = PlaceholderImage

\* C21: the view getDishOfTheDay returns reflects the collection persisted at
\* the time of the call: it is the view of the empty dish only if the
\* collection is empty, and otherwise it is the view getAllDishes gives, for
\* the same user, of a record that is in the collection, also after the
\* selected dish was rated, edited or deleted.
C21_TodayReflectsRepository ==
    last.op = "getDishOfTheDay"
        => IF IsSentinel(last.ret) THEN db = <<>>
           ELSE \E i \in 1..Len(db) : last.ret = ToTransport(db[i], last.req)

\* The records that refer to the image file.
ReferringTo(imageFilePath) == {i \in 1..Len(db) : db[i].imageFilePath = imageFilePath}

\* C22: while no add or edit is in progress, every file in the image
\* directory is referred to by exactly one record of the persisted
\* collection.
C22_NoOrphanImages ==
    (Awaiting = {} /\ hung = {})
        => \A imageFilePath \in files : Cardinality(ReferringTo(imageFilePath)) = 1
====
